---- MODULE Spec2Model ----
(***************************************************************************)
(* A model of the Die Agony solver: the board (board.rs), the dice         *)
(* (dice.rs), and the breadth-first search over journeys (solver.rs).      *)
(*                                                                         *)
(* An Option<T> is a sequence of length 0 (None) or 1 (Some(x)).  A tuple  *)
(* (row, col) is a sequence <<row, col>>.  Rows and columns are zero-based *)
(* as in the source.                                                       *)
(***************************************************************************)
EXTENDS Integers, Sequences, FiniteSets

VARIABLES
    \* Solver (solver.rs)
    board,          \* Solver.board: the matrix of values
    journeys,       \* Solver.journeys: the FIFO list of candidate journeys
    dequeues,       \* how many journeys pop_front has returned so far
    journey,        \* the journey popped by `while let Some(journey)` (an Option)
    dirIdx,         \* position of the `for direction in Direction::iter()` loop
    pc,             \* where the run is: "while", "for", "solve", ..., "done"
    found,          \* the value returned by find_solution_journey (an Option)
    solution,       \* the value returned by solve (an Option<Solution>)
    sum_unvisited,  \* solve's `sum` (an Option)
    last_idx,       \* explain: the index in visited_cells of last_visited_cell
    dice_movements, \* explain: the movements recovered
    explain_dice,   \* explain: its `dice`
    explain_score,  \* explain: its `score`
    explain_lines,  \* explain: its `explanation`, the lines pushed so far
    \* Dice under a sequence of rolls (dice.rs)
    dice0,          \* the dice before any roll
    dice,           \* the dice after the rolls
    rolls,          \* the directions rolled so far
    \* Board::move_in (board.rs)
    curr_cell,      \* the cell moved from
    direction,      \* the direction of the last move_in (an Option)
    moved,          \* the value returned by the last move_in (an Option<Cell>)
    \* Board::compute_sum_of_unvisited_cells (board.rs)
    unique_visited_positions,   \* the set handed to the function
    sum,            \* the value it returned
    prev_sum,       \* the value it returned before the last insertion
    inserted,       \* the position inserted last (an Option)
    \* Solver::try_dice_movement (solver.rs)
    args,           \* the arguments of the call
    outcome,        \* the MovementOutcome it returned (an Option)
    \* The valid journeys of the board
    route           \* a valid journey, extended one valid move at a time

solverVars ==
    <<board, journeys, dequeues, journey, dirIdx, pc, found, solution,
      sum_unvisited, last_idx, dice_movements, explain_dice, explain_score,
      explain_lines>>
diceVars == <<dice0, dice, rolls>>
moveVars == <<curr_cell, direction, moved>>
sumVars == <<unique_visited_positions, sum, prev_sum, inserted>>
tryVars == <<args, outcome>>
\* The variables a solver run leaves alone.
unitVars == <<diceVars, moveVars, sumVars, tryVars, route>>
vars == <<solverVars, unitVars>>

----------------------------------------------------------------------------
(* Option<T> *)

None == <<>>
Some(x) == <<x>>
IsSome(o) == o # <<>>
Unwrap(o) == o[1]

----------------------------------------------------------------------------
(* i16 arithmetic.  Rust's `/` and `%` truncate towards zero. *)

\* A value wrapped to 16 bits, as the release build's arithmetic does.
Wrap(x) == ((x + 32768) % 65536) - 32768

Abs(x) == IF x < 0 THEN -x ELSE x

\* a / b in Rust (b # 0): the quotient rounded towards zero.
TruncDiv(a, b) ==
    IF (a >= 0) = (b > 0) THEN Abs(a) \div Abs(b) ELSE -(Abs(a) \div Abs(b))

\* a % b in Rust (b # 0): the remainder has the sign of a.
TruncRem(a, b) == a - b * TruncDiv(a, b)

----------------------------------------------------------------------------
(* direction.rs *)

\* A faulty order of the variants: RIGHT is declared before UP.
DirectionIter_RightFirst == <<"RIGHT", "UP", "DOWN", "LEFT">>

\* Direction::iter() yields the variants in declaration order.
DirectionIter == <<"UP", "RIGHT", "DOWN", "LEFT">>
Direction == {DirectionIter[i] : i \in 1..Len(DirectionIter)}

----------------------------------------------------------------------------
(* dice.rs *)

Dice(top, bottom, left, right, front, back) ==
    [top |-> top, bottom |-> bottom, left |-> left, right |-> right,
     front |-> front, back |-> back]

\* Dice::default(): every face is None.
DiceDefault == Dice(None, None, None, None, None, None)

\* A faulty set_top: the dice is returned as it was given.
set_top_Discarded(d, top) == d

set_top(d, top) == [d EXCEPT !.top = Some(top)]

\* A faulty roll_up: `back: self.back` for `back: self.bottom`.
roll_up_KeepingBack(d) == Dice(d.back, d.front, d.left, d.right, d.top, d.back)

roll_up(d) == Dice(d.back, d.front, d.left, d.right, d.top, d.bottom)

\* A faulty roll_down: a half turn, top and bottom exchanged, front and back
\* exchanged.
roll_down_HalfTurn(d) == Dice(d.bottom, d.top, d.left, d.right, d.back, d.front)

\* A faulty roll_down: the rotation of roll_up.
roll_down_LikeRollUp(d) == Dice(d.back, d.front, d.left, d.right, d.top, d.bottom)

roll_down(d) == Dice(d.front, d.back, d.left, d.right, d.bottom, d.top)

\* A faulty roll_left: `bottom: self.bottom` and `right: self.left`, the three
\* other faces of the roll turning about the bottom.
roll_left_AboutBottom(d) ==
    Dice(d.right, d.bottom, d.top, d.left, d.front, d.back)

roll_left(d) == Dice(d.right, d.left, d.top, d.bottom, d.front, d.back)

\* A faulty roll_right: `right: self.right` for `right: self.top`.
roll_right_KeepingRight(d) ==
    Dice(d.left, d.right, d.bottom, d.right, d.front, d.back)

roll_right(d) == Dice(d.left, d.right, d.bottom, d.top, d.front, d.back)

\* A faulty roll_in: the arms of LEFT and RIGHT exchanged.
roll_in_LeftRightExchanged(d, dir) ==
    CASE dir = "UP" -> roll_up(d)
      [] dir = "RIGHT" -> roll_left(d)
      [] dir = "DOWN" -> roll_down(d)
      [] dir = "LEFT" -> roll_right(d)

roll_in(d, dir) ==
    CASE dir = "UP" -> roll_up(d)
      [] dir = "RIGHT" -> roll_right(d)
      [] dir = "DOWN" -> roll_down(d)
      [] dir = "LEFT" -> roll_left(d)

get_top(d) == d.top

----------------------------------------------------------------------------
(* board.rs *)

BOARD_WIDTH == 6

END_CELL_POSITION == <<0, BOARD_WIDTH - 1>>

Cell(value, position) == [value |-> value, position |-> position]

get_value(cell) == cell.value

\* A faulty is_end_cell: the column alone is compared.
is_end_cell_ColumnOnly(cell) == cell.position[2] = END_CELL_POSITION[2]

is_end_cell(cell) == cell.position = END_CELL_POSITION

get_position(cell) == cell.position

\* A matrix given as rows, indexed from zero like the source's arrays.
Matrix(rows) ==
    [r \in 0..(BOARD_WIDTH - 1) |-> [c \in 0..(BOARD_WIDTH - 1) |-> rows[r + 1][c + 1]]]

\* A faulty Board::new(): each value of the puzzle is twenty times too large.
BoardNew_TwentyFold ==
    Matrix(<< <<1140, 660, 2640, 5360, 9840, 14640>>,
              <<1620, 2460, 4800, 8860, 7060, 10160>>,
              <<3720, 840, 3900, 14080, 9040, 4560>>,
              <<-140, 40, 7140, 9040, 6340, 7900>>,
              <<100, 460, -80, 11840, 8900, 12400>>,
              <<0, 1540, 640, 8060, 6740, 9040>> >>)

\* Board::new(): the fixed puzzle data.
BoardNew ==
    Matrix(<< <<57, 33, 132, 268, 492, 732>>,
              <<81, 123, 240, 443, 353, 508>>,
              <<186, 42, 195, 704, 452, 228>>,
              <<-7, 2, 357, 452, 317, 395>>,
              <<5, 23, -4, 592, 445, 620>>,
              <<0, 77, 32, 403, 337, 452>> >>)

start_cell(b) == Cell(b[BOARD_WIDTH - 1][0], <<BOARD_WIDTH - 1, 0>>)

\* A faulty move_up: the value of the current cell for that of the cell above.
move_up_ValueOfCurrentCell(b, cell) ==
    LET curr_row == cell.position[1]
        curr_col == cell.position[2]
    IN  IF curr_row > 0
        THEN Some(Cell(b[curr_row][curr_col], <<curr_row - 1, curr_col>>))
        ELSE None

move_up(b, cell) ==
    LET curr_row == cell.position[1]
        curr_col == cell.position[2]
    IN  IF curr_row > 0
        THEN Some(Cell(b[curr_row - 1][curr_col], <<curr_row - 1, curr_col>>))
        ELSE None

move_down(b, cell) ==
    LET curr_row == cell.position[1]
        curr_col == cell.position[2]
    IN  IF curr_row < BOARD_WIDTH - 1
        THEN Some(Cell(b[curr_row + 1][curr_col], <<curr_row + 1, curr_col>>))
        ELSE None

\* A faulty move_left: the cell returned keeps the position moved from.
move_left_KeepingPosition(b, cell) ==
    LET curr_row == cell.position[1]
        curr_col == cell.position[2]
    IN  IF curr_col > 0
        THEN Some(Cell(b[curr_row][curr_col - 1], <<curr_row, curr_col>>))
        ELSE None

move_left(b, cell) ==
    LET curr_row == cell.position[1]
        curr_col == cell.position[2]
    IN  IF curr_col > 0
        THEN Some(Cell(b[curr_row][curr_col - 1], <<curr_row, curr_col - 1>>))
        ELSE None

move_right(b, cell) ==
    LET curr_row == cell.position[1]
        curr_col == cell.position[2]
    IN  IF curr_col < BOARD_WIDTH - 1
        THEN Some(Cell(b[curr_row][curr_col + 1], <<curr_row, curr_col + 1>>))
        ELSE None

move_in(b, cell, dir) ==
    CASE dir = "UP" -> move_up(b, cell)
      [] dir = "RIGHT" -> move_right(b, cell)
      [] dir = "DOWN" -> move_down(b, cell)
      [] dir = "LEFT" -> move_left(b, cell)

\* The inner loop over the first `cols` columns of a row: what its iterations
\* `sum += self.board[row][col]` add, for the positions that the set does not
\* contain.
RECURSIVE ColLoop(_, _, _, _)
ColLoop(b, visited, row, cols) ==
    IF cols = 0
    THEN 0
    ELSE Wrap(ColLoop(b, visited, row, cols - 1)
              + (IF <<row, cols - 1>> \notin visited THEN b[row][cols - 1] ELSE 0))

\* The outer loop over the first `rows` rows: the value of `sum` after them.
\* i16 addition wraps, so adding a row's cells one by one to the running sum
\* gives the same value as adding what the row adds.
RECURSIVE RowLoop(_, _, _)
RowLoop(b, visited, rows) ==
    IF rows = 0
    THEN 0
    ELSE Wrap(RowLoop(b, visited, rows - 1)
              + ColLoop(b, visited, rows - 1, BOARD_WIDTH))

\* A faulty compute_sum_of_unvisited_cells: the outer loop stops one row early.
board_compute_sum_WithoutLastRow(b, visited) ==
    RowLoop(b, visited, BOARD_WIDTH - 1)

board_compute_sum_of_unvisited_cells(b, visited) == RowLoop(b, visited, BOARD_WIDTH)

----------------------------------------------------------------------------
(* solver.rs: Journey *)

Journey(d, turn, visited_cells) ==
    [dice |-> d, turn |-> turn, visited_cells |-> visited_cells]

get_last_visited_cell(j) == j.visited_cells[Len(j.visited_cells)]

----------------------------------------------------------------------------
(* solver.rs: Solver *)

Invalid == [tag |-> "Invalid"]
ValidJourney(j) == [tag |-> "ValidJourney", journey |-> j]
SolutionJourney(j) == [tag |-> "SolutionJourney", journey |-> j]

NotFound == [tag |-> "NotFound"]
Found(s, explanation) == [tag |-> "Found", sum |-> s, explanation |-> explanation]

\* A faulty arm `Some(dice_top)`: the top face is not multiplied by the turn.
TryKnownTop_WithoutTurn(d, score, new_turn, cell, visited_cells) ==
    LET dice_top == Unwrap(get_top(d))
        new_score == Wrap(score + dice_top)
    IN  IF new_score # get_value(cell)
        THEN None
        ELSE Some(Journey(d, new_turn, Append(visited_cells, cell)))

\* A faulty arm `Some(dice_top)`: the known top gives way to the top that
\* fits the cell, where one exists.
TryKnownTop_Refitted(d, score, new_turn, cell, visited_cells) ==
    LET score_diff == Wrap(get_value(cell) - score)
    IN  IF TruncRem(score_diff, new_turn) # 0
        THEN None
        ELSE Some(Journey(set_top(d, TruncDiv(score_diff, new_turn)), new_turn,
                          Append(visited_cells, cell)))

\* The arm `Some(dice_top)` of try_dice_movement: the journey built, or None
\* where the arm returns Invalid.
TryKnownTop(d, score, new_turn, cell, visited_cells) ==
    LET dice_top == Unwrap(get_top(d))
        new_score == Wrap(score + Wrap(new_turn * dice_top))
    IN  IF new_score # get_value(cell)
        THEN None
        ELSE Some(Journey(d, new_turn, Append(visited_cells, cell)))

\* A faulty arm `None`: the difference is divided without the check of the
\* remainder.
TryUnknownTop_WithoutRemainder(d, score, new_turn, cell, visited_cells) ==
    LET new_score == get_value(cell)
        score_diff == Wrap(new_score - score)
    IN  Some(Journey(set_top(d, TruncDiv(score_diff, new_turn)), new_turn,
                     Append(visited_cells, cell)))

\* The arm `None` of try_dice_movement: the journey built, or None where the
\* arm returns Invalid.
TryUnknownTop(d, score, new_turn, cell, visited_cells) ==
    LET new_score == get_value(cell)
        score_diff == Wrap(new_score - score)
    IN  IF TruncRem(score_diff, new_turn) # 0
        THEN None
        ELSE Some(Journey(set_top(d, TruncDiv(score_diff, new_turn)), new_turn,
                          Append(visited_cells, cell)))

\* A faulty try_dice_movement: a journey onto the end cell is a ValidJourney
\* like any other.
try_dice_movement_NeverSolution(d, score, new_turn, cell, visited_cells) ==
    LET valid_journey ==
            IF IsSome(get_top(d))
            THEN TryKnownTop(d, score, new_turn, cell, visited_cells)
            ELSE TryUnknownTop(d, score, new_turn, cell, visited_cells)
    IN  IF ~IsSome(valid_journey)
        THEN Invalid
        ELSE ValidJourney(Unwrap(valid_journey))

\* A faulty try_dice_movement: the top is inferred whether known or not.
try_dice_movement_AlwaysInfers(d, score, new_turn, cell, visited_cells) ==
    LET valid_journey == TryUnknownTop(d, score, new_turn, cell, visited_cells)
    IN  IF ~IsSome(valid_journey)
        THEN Invalid
        ELSE IF is_end_cell(get_last_visited_cell(Unwrap(valid_journey)))
        THEN SolutionJourney(Unwrap(valid_journey))
        ELSE ValidJourney(Unwrap(valid_journey))

try_dice_movement(d, score, new_turn, cell, visited_cells) ==
    LET valid_journey ==
            IF IsSome(get_top(d))
            THEN TryKnownTop(d, score, new_turn, cell, visited_cells)
            ELSE TryUnknownTop(d, score, new_turn, cell, visited_cells)
    IN  IF ~IsSome(valid_journey)
        THEN Invalid
        ELSE IF is_end_cell(get_last_visited_cell(Unwrap(valid_journey)))
        THEN SolutionJourney(Unwrap(valid_journey))
        ELSE ValidJourney(Unwrap(valid_journey))

\* The set of the positions of the journey's cells: duplicates collapse.
UniqueVisitedPositions(j) ==
    {get_position(j.visited_cells[i]) : i \in 1..Len(j.visited_cells)}

\* The sum of the values of cells[lo..hi].
RECURSIVE ValuesOf(_, _, _)
ValuesOf(cells, lo, hi) ==
    IF lo > hi THEN 0
    ELSE IF lo = hi THEN get_value(cells[lo])
    ELSE ValuesOf(cells, lo, (lo + hi) \div 2)
         + ValuesOf(cells, ((lo + hi) \div 2) + 1, hi)

\* A faulty compute_sum_of_unvisited_cells of the solver: the value of a cell
\* is taken off the total at each visit.
solver_compute_sum_PerVisit(b, j) ==
    Wrap(board_compute_sum_of_unvisited_cells(b, {})
         - ValuesOf(j.visited_cells, 1, Len(j.visited_cells)))

solver_compute_sum_of_unvisited_cells(b, j) ==
    board_compute_sum_of_unvisited_cells(b, UniqueVisitedPositions(j))

\* A faulty first journey: `turn: 1` for `turn: 0`.
FirstJourney_TurnOne(b) == Journey(DiceDefault, 1, <<start_cell(b)>>)

\* Solver::new(): the first journey, on the start cell with an unknown dice.
FirstJourney(b) == Journey(DiceDefault, 0, <<start_cell(b)>>)

\* A faulty pop: the journey pushed last is popped first.
pop_back(q) ==
    IF q = <<>> THEN [popped |-> None, rest |-> q]
    ELSE [popped |-> Some(q[Len(q)]), rest |-> SubSeq(q, 1, Len(q) - 1)]

\* A faulty pop: the last journey of the list is never popped.
pop_front_StopsAtLast(q) ==
    IF Len(q) <= 1 THEN [popped |-> None, rest |-> q]
    ELSE [popped |-> Some(Head(q)), rest |-> Tail(q)]

\* A faulty pop: the first journey is returned and left in the list.
pop_front_Peek(q) ==
    IF q = <<>> THEN [popped |-> None, rest |-> q]
    ELSE [popped |-> Some(Head(q)), rest |-> q]

\* self.journeys.pop_front(): the journey popped (an Option) and the rest.
pop_front(q) ==
    IF q = <<>> THEN [popped |-> None, rest |-> q]
    ELSE [popped |-> Some(Head(q)), rest |-> Tail(q)]

\* A faulty push: push_front for push_back.
push_back_AtFront(q, j) == <<j>> \o q

\* A faulty push: the journey pushed takes the place of the last of the list.
push_back_OverLast(q, j) ==
    IF q = <<>> THEN <<j>> ELSE [q EXCEPT ![Len(q)] = j]

push_back(q, j) == Append(q, j)

\* The number of journeys a run may pop: the cap of the counter dequeues.
MaxDequeues == 200

\* `while let Some(journey) = self.journeys.pop_front()`: the next journey is
\* popped and its directions are tried, or the list is empty and
\* find_solution_journey returns None.
PopJourney ==
    /\ pc = "while"
    /\ dequeues < MaxDequeues
    /\ LET p == pop_front(journeys)
       IN  /\ journeys' = p.rest
           /\ journey' = p.popped
           /\ dequeues' = IF IsSome(p.popped) THEN dequeues + 1 ELSE dequeues
           /\ IF IsSome(p.popped)
              THEN /\ pc' = "for"
                   /\ dirIdx' = 1
                   /\ found' = found
              ELSE /\ pc' = "solve"
                   /\ dirIdx' = dirIdx
                   /\ found' = None
    /\ UNCHANGED <<board, solution, sum_unvisited, last_idx, dice_movements,
                   explain_dice, explain_score, explain_lines, unitVars>>

\* One iteration of `for direction in Direction::iter()` for the popped
\* journey.
TryDirection ==
    /\ pc = "for"
    /\ LET j == Unwrap(journey)
           last_visited_cell == get_last_visited_cell(j)
           new_turn == Wrap(j.turn + 1)
           dir == DirectionIter[dirIdx]
           cell == move_in(board, last_visited_cell, dir)
           result ==
               IF IsSome(cell)
               THEN try_dice_movement(roll_in(j.dice, dir),
                                      get_value(last_visited_cell), new_turn,
                                      Unwrap(cell), j.visited_cells)
               ELSE Invalid
       IN  IF result.tag = "SolutionJourney"
           THEN /\ found' = Some(result.journey)
                /\ pc' = "solve"
                /\ UNCHANGED <<journeys, journey, dirIdx>>
           ELSE /\ journeys' = IF result.tag = "ValidJourney"
                               THEN push_back(journeys, result.journey)
                               ELSE journeys
                /\ IF dirIdx < Len(DirectionIter)
                   THEN /\ dirIdx' = dirIdx + 1
                        /\ UNCHANGED <<journey, pc>>
                   ELSE /\ dirIdx' = 0
                        /\ journey' = None
                        /\ pc' = "while"
                /\ found' = found
    /\ UNCHANGED <<board, dequeues, solution, sum_unvisited, last_idx, dice_movements,
                   explain_dice, explain_score, explain_lines, unitVars>>

\* The match of solve on what find_solution_journey returned: NotFound, or
\* the sum of the unvisited cells and the start of explain, whose first loop
\* begins on the last visited cell with a clone of the journey's dice.
Solve ==
    /\ pc = "solve"
    /\ IF IsSome(found)
       THEN /\ sum_unvisited' =
                   Some(solver_compute_sum_of_unvisited_cells(board, Unwrap(found)))
            /\ last_idx' = Len(Unwrap(found).visited_cells)
            /\ dice_movements' = <<>>
            /\ explain_dice' = Unwrap(found).dice
            /\ pc' = "explain_backwards"
            /\ UNCHANGED solution
       ELSE /\ solution' = Some(NotFound)
            /\ pc' = "done"
            /\ UNCHANGED <<sum_unvisited, last_idx, dice_movements, explain_dice>>
    /\ UNCHANGED <<board, dequeues, journeys, journey, dirIdx, found, explain_score,
                   explain_lines, unitVars>>

\* A faulty first loop of explain: a move DOWN is undone by a roll down.
ExplainMovement_RollDownForUp(second_to_last, last) ==
    LET second_to_last_row == get_position(second_to_last)[1]
        second_to_last_col == get_position(second_to_last)[2]
        last_row == get_position(last)[1]
        last_col == get_position(last)[2]
    IN  IF second_to_last_row < last_row /\ second_to_last_col = last_col
        THEN Some([movement |-> "DOWN", undo |-> "DOWN"])
        ELSE IF second_to_last_row > last_row /\ second_to_last_col = last_col
        THEN Some([movement |-> "UP", undo |-> "DOWN"])
        ELSE IF second_to_last_col < last_col /\ second_to_last_row = last_row
        THEN Some([movement |-> "RIGHT", undo |-> "LEFT"])
        ELSE IF second_to_last_col > last_col /\ second_to_last_row = last_row
        THEN Some([movement |-> "LEFT", undo |-> "RIGHT"])
        ELSE None

\* The direction explain notes for the move from second_to_last to last, and
\* the roll it applies to undo the move; None where it panics.
ExplainMovement(second_to_last, last) ==
    LET second_to_last_row == get_position(second_to_last)[1]
        second_to_last_col == get_position(second_to_last)[2]
        last_row == get_position(last)[1]
        last_col == get_position(last)[2]
    IN  IF second_to_last_row < last_row /\ second_to_last_col = last_col
        THEN Some([movement |-> "DOWN", undo |-> "UP"])
        ELSE IF second_to_last_row > last_row /\ second_to_last_col = last_col
        THEN Some([movement |-> "UP", undo |-> "DOWN"])
        ELSE IF second_to_last_col < last_col /\ second_to_last_row = last_row
        THEN Some([movement |-> "RIGHT", undo |-> "LEFT"])
        ELSE IF second_to_last_col > last_col /\ second_to_last_row = last_row
        THEN Some([movement |-> "LEFT", undo |-> "RIGHT"])
        ELSE None

\* A faulty reversal: the movements are left in the order recovered.
Reverse_Omitted(s) == s

\* dice_movements.reverse()
Reverse(s) == [i \in 1..Len(s) |-> s[Len(s) + 1 - i]]

\* One iteration of the first loop of explain (backwards through the visited
\* cells), or, the cells exhausted, the statements between the two loops: the
\* line about the starting dice, the reversal of the movements, score = 0.
ExplainBackwards ==
    /\ pc = "explain_backwards"
    /\ LET visited_cells == Unwrap(found).visited_cells
       IN  IF last_idx > 1
           THEN LET m == ExplainMovement(visited_cells[last_idx - 1],
                                         visited_cells[last_idx])
                IN  IF IsSome(m)
                    THEN /\ dice_movements' =
                                Append(dice_movements, Unwrap(m).movement)
                         /\ explain_dice' = roll_in(explain_dice, Unwrap(m).undo)
                         /\ last_idx' = last_idx - 1
                         /\ UNCHANGED <<pc, explain_lines, explain_score>>
                    ELSE /\ pc' = "panic"
                         /\ UNCHANGED <<dice_movements, explain_dice, last_idx,
                                        explain_lines, explain_score>>
           ELSE /\ explain_lines' = <<[dice |-> explain_dice]>>
                /\ dice_movements' = Reverse(dice_movements)
                /\ explain_score' = 0
                /\ pc' = "explain_forwards"
                /\ UNCHANGED <<explain_dice, last_idx>>
    /\ UNCHANGED <<board, dequeues, journeys, journey, dirIdx, found, solution,
                   sum_unvisited, unitVars>>

\* One iteration of the second loop of explain (the movements replayed from
\* the starting dice; the source's `turn` is Len(explain_lines) - 1), or, the
\* movements exhausted, the return of Found from solve.  A line of the text is
\* modelled by the values formatted into it.
ExplainForwards ==
    /\ pc = "explain_forwards"
    /\ LET turn == Len(explain_lines) - 1
       IN  IF turn < Len(dice_movements)
           THEN LET dice_movement == dice_movements[turn + 1]
                    rolled == roll_in(explain_dice, dice_movement)
                IN  IF IsSome(get_top(rolled))
                    THEN LET dice_top == Unwrap(get_top(rolled))
                             new_score ==
                                 Wrap(explain_score + Wrap(Wrap(turn + 1) * dice_top))
                         IN  /\ explain_dice' = rolled
                             /\ explain_lines' =
                                    Append(explain_lines,
                                        [turn |-> turn + 1,
                                         dice_movement |-> dice_movement,
                                         dice_top |-> dice_top,
                                         score |-> explain_score,
                                         new_score |-> new_score,
                                         cell_value |->
                                             get_value(Unwrap(found).visited_cells[turn + 2])])
                             /\ explain_score' = new_score
                             /\ UNCHANGED <<pc, solution>>
                    ELSE /\ pc' = "panic"
                         /\ UNCHANGED <<explain_dice, explain_lines, explain_score, solution>>
           ELSE /\ solution' = Some(Found(Unwrap(sum_unvisited), explain_lines))
                /\ pc' = "done"
                /\ UNCHANGED <<explain_dice, explain_lines, explain_score>>
    /\ UNCHANGED <<board, dequeues, journeys, journey, dirIdx, found, sum_unvisited,
                   last_idx, dice_movements, unitVars>>

----------------------------------------------------------------------------
(* The solver run: Solver::new().solve() *)

\* The variables of the other specifications, at rest.
DiceIdle == dice0 = DiceDefault /\ dice = DiceDefault /\ rolls = <<>>
MoveIdle == curr_cell = start_cell(BoardNew) /\ direction = None /\ moved = None
SumIdle ==
    /\ unique_visited_positions = {}
    /\ sum = 0
    /\ prev_sum = 0
    /\ inserted = None
TryIdle == args = None /\ outcome = None
RouteIdle == route = FirstJourney(BoardNew)
SolverIdle ==
    /\ board = BoardNew
    /\ journeys = <<>>
    /\ dequeues = 0
    /\ journey = None
    /\ dirIdx = 0
    /\ pc = "idle"
    /\ found = None
    /\ solution = None
    /\ sum_unvisited = None
    /\ last_idx = 0
    /\ dice_movements = <<>>
    /\ explain_dice = DiceDefault
    /\ explain_score = 0
    /\ explain_lines = <<>>

\* Solver::new() on board data b.
SolverNew(b) ==
    /\ board = b
    /\ journeys = <<FirstJourney(b)>>
    /\ dequeues = 0
    /\ journey = None
    /\ dirIdx = 0
    /\ pc = "while"
    /\ found = None
    /\ solution = None
    /\ sum_unvisited = None
    /\ last_idx = 0
    /\ dice_movements = <<>>
    /\ explain_dice = DiceDefault
    /\ explain_score = 0
    /\ explain_lines = <<>>

Init ==
    /\ SolverNew(BoardNew)
    /\ DiceIdle /\ MoveIdle /\ SumIdle /\ TryIdle /\ RouteIdle

Next ==
    \/ PopJourney
    \/ TryDirection
    \/ Solve
    \/ ExplainBackwards
    \/ ExplainForwards

Spec == Init /\ [][Next]_vars

\* The run goes on while it has a step to take.
SpecFair == Init /\ [][Next]_vars /\ WF_vars(Next)

----------------------------------------------------------------------------
(* The solver run on other board data *)

\* Board data with two routes to the end cell: ten moves along the left
\* column and the top row, twelve moves along the bottom row and the right
\* columns.
BoardTwoRoutes ==
    Matrix(<< <<2, 2, 2, 10, -8, -8>>,
              <<12, 17, 19, 23, 19, -32>>,
              <<4, 41, 37, 29, -22, -32>>,
              <<4, 7, 11, 23, -4, 12>>,
              <<-2, 23, 13, 11, 19, 19>>,
              <<0, 2, 2, -1, -9, 1>> >>)

\* The puzzle data with an end cell no journey can score.
BoardNoRoute == [BoardNew EXCEPT ![0][BOARD_WIDTH - 1] = 733]

Boards == {BoardNew, BoardTwoRoutes, BoardNoRoute}

InitBoards ==
    /\ \E b \in Boards : SolverNew(b) /\ route = FirstJourney(b)
    /\ DiceIdle /\ MoveIdle /\ SumIdle /\ TryIdle

\* How many moves past the turn of the journey returned the valid journeys of
\* the board are followed.
MaxLonger == 2

\* The valid journeys of the board, against which the journey returned is
\* compared once the run is over: a valid journey, on the end cell or not, is
\* extended by one move that move_in allows and try_dice_movement accepts.
ExtendRoute(dir) ==
    /\ pc = "done"
    /\ IsSome(found)
    /\ route.turn < Unwrap(found).turn + MaxLonger
    /\ LET last_visited_cell == get_last_visited_cell(route)
           cell == move_in(board, last_visited_cell, dir)
       IN  /\ IsSome(cell)
           /\ LET result == try_dice_movement(roll_in(route.dice, dir),
                                              get_value(last_visited_cell),
                                              Wrap(route.turn + 1), Unwrap(cell),
                                              route.visited_cells)
              IN  /\ result.tag # "Invalid"
                  /\ route' = result.journey
    /\ UNCHANGED <<solverVars, diceVars, moveVars, sumVars, tryVars>>

NextBoards ==
    \/ PopJourney
    \/ TryDirection
    \/ Solve
    \/ ExplainBackwards
    \/ ExplainForwards
    \/ \E dir \in Direction : ExtendRoute(dir)

SpecBoards == InitBoards /\ [][NextBoards]_vars

----------------------------------------------------------------------------
(* A dice under a sequence of rolls *)

\* The number of rolls applied to a dice.
MaxRolls == 5

\* The dice of the tests of dice.rs (create_default_dice), whose six faces
\* differ, with any of its faces unknown.
DiceInputs ==
    {Dice(top, bottom, left, right, front, back) :
        top \in {None, Some(1)}, bottom \in {None, Some(3)},
        left \in {None, Some(4)}, right \in {None, Some(5)},
        front \in {None, Some(0)}, back \in {None, Some(2)}}

InitDice ==
    /\ dice0 \in DiceInputs
    /\ dice = dice0
    /\ rolls = <<>>
    /\ SolverIdle /\ MoveIdle /\ SumIdle /\ TryIdle /\ RouteIdle

\* dice = dice.roll_in(dir)
Roll(dir) ==
    /\ Len(rolls) < MaxRolls
    /\ dice' = roll_in(dice, dir)
    /\ rolls' = Append(rolls, dir)
    /\ UNCHANGED <<dice0, solverVars, moveVars, sumVars, tryVars, route>>

NextDice == \E dir \in Direction : Roll(dir)

SpecDice == InitDice /\ [][NextDice]_vars

----------------------------------------------------------------------------
(* Board::move_in from any cell of the board *)

\* The cells of board data b.
Cells(b) ==
    {Cell(b[r][c], <<r, c>>) : r \in 0..(BOARD_WIDTH - 1), c \in 0..(BOARD_WIDTH - 1)}

InitMove ==
    /\ curr_cell \in Cells(BoardNew)
    /\ direction = None
    /\ moved = None
    /\ SolverIdle /\ DiceIdle /\ SumIdle /\ TryIdle /\ RouteIdle

\* moved = board.move_in(&curr_cell, dir)
MoveIn(dir) ==
    /\ direction' = Some(dir)
    /\ moved' = move_in(board, curr_cell, dir)
    /\ UNCHANGED <<curr_cell, solverVars, diceVars, sumVars, tryVars, route>>

NextMove == \E dir \in Direction : MoveIn(dir)

SpecMove == InitMove /\ [][NextMove]_vars

----------------------------------------------------------------------------
(* Board::compute_sum_of_unvisited_cells of a growing set of positions *)

\* The number of positions in the set.
MaxVisited == 2

\* The positions of the board, and the nearest ones outside it.
PositionInputs == (0..BOARD_WIDTH) \X (0..BOARD_WIDTH)

InitSum ==
    /\ unique_visited_positions = {}
    /\ sum = board_compute_sum_of_unvisited_cells(BoardNew, {})
    /\ prev_sum = sum
    /\ inserted = None
    /\ SolverIdle /\ DiceIdle /\ MoveIdle /\ TryIdle /\ RouteIdle

\* unique_visited_positions.insert(&position), then the sum is computed again.
Insert(position) ==
    /\ Cardinality(unique_visited_positions) < MaxVisited
    /\ position \notin unique_visited_positions
    /\ unique_visited_positions' = unique_visited_positions \cup {position}
    /\ inserted' = Some(position)
    /\ prev_sum' = sum
    /\ sum' = board_compute_sum_of_unvisited_cells(board, unique_visited_positions')
    /\ UNCHANGED <<solverVars, diceVars, moveVars, tryVars, route>>

NextSum == \E position \in PositionInputs : Insert(position)

SpecSum == InitSum /\ [][NextSum]_vars

----------------------------------------------------------------------------
(* Solver::try_dice_movement on any arguments *)

\* The largest absolute value of a face, a score and a cell value.
MaxValue == 3
\* The largest turn.
MaxTurn == 3

Values == (-MaxValue)..MaxValue

\* The rolled dice handed to try_dice_movement: the top face unknown or any
\* value, the five others those of the tests' dice, or unknown.
RolledDiceInputs ==
    {Dice(top, Some(3), Some(4), Some(5), Some(0), Some(2)) :
        top \in {None} \cup {Some(t) : t \in Values}}
    \cup {Dice(top, None, None, None, None, None) :
        top \in {None} \cup {Some(t) : t \in Values}}

\* The cell moved onto: the end cell or another one, with any value.
CellInputs ==
    {Cell(v, position) : v \in Values, position \in {END_CELL_POSITION, <<4, 1>>}}

\* The cells visited before the move.
VisitedCellsInputs ==
    {<<start_cell(BoardNew)>>,
     <<start_cell(BoardNew), Cell(BoardNew[4][0], <<4, 0>>)>>}

InitTry ==
    /\ args \in {Some([dice |-> d, score |-> s, new_turn |-> n, cell |-> c,
                       visited_cells |-> vc]) :
                    d \in RolledDiceInputs, s \in Values, n \in 1..MaxTurn,
                    c \in CellInputs, vc \in VisitedCellsInputs}
    /\ outcome = None
    /\ SolverIdle /\ DiceIdle /\ MoveIdle /\ SumIdle /\ RouteIdle

\* outcome = Solver::try_dice_movement(dice, score, new_turn, cell, &visited_cells)
TryDiceMovement ==
    /\ outcome = None
    /\ outcome' = Some(try_dice_movement(Unwrap(args).dice, Unwrap(args).score,
                                         Unwrap(args).new_turn, Unwrap(args).cell,
                                         Unwrap(args).visited_cells))
    /\ UNCHANGED <<args, solverVars, diceVars, moveVars, sumVars, route>>

NextTry == TryDiceMovement

SpecTry == InitTry /\ [][NextTry]_vars

----------------------------------------------------------------------------
(* Journey::explain on any journey *)

\* The number of cells of a journey handed to explain.
MaxCells == 3

\* The positions of the cells of those journeys: from the start cell, steps
\* of one row or column, of two, and diagonal ones.
ExplainPositions == {<<5, 0>>, <<4, 0>>, <<3, 0>>, <<4, 1>>, <<5, 2>>}

\* Sequences of two to MaxCells cells of the board at those positions.
ExplainCellsInputs ==
    UNION {[1..n -> {c \in Cells(BoardNew) : get_position(c) \in ExplainPositions}] :
              n \in 2..MaxCells}

\* The dice of those journeys: no face known, or the six faces known.
ExplainDiceInputs == {DiceDefault, Dice(Some(1), Some(3), Some(4), Some(5), Some(0), Some(2))}

\* solve holds a journey, made by the search or not, and explains it.
InitExplain ==
    /\ board = BoardNew
    /\ journeys = <<>>
    /\ dequeues = 0
    /\ journey = None
    /\ dirIdx = 0
    /\ pc = "solve"
    /\ \E d \in ExplainDiceInputs, cells \in ExplainCellsInputs :
           found = Some(Journey(d, Len(cells) - 1, cells))
    /\ solution = None
    /\ sum_unvisited = None
    /\ last_idx = 0
    /\ dice_movements = <<>>
    /\ explain_dice = DiceDefault
    /\ explain_score = 0
    /\ explain_lines = <<>>
    /\ DiceIdle /\ MoveIdle /\ SumIdle /\ TryIdle /\ RouteIdle

NextExplain ==
    \/ Solve
    \/ ExplainBackwards
    \/ ExplainForwards

SpecExplain == InitExplain /\ [][NextExplain]_vars

----------------------------------------------------------------------------
(* Properties *)

\* The sum of the values of board data b at the positions of S that lie in
\* one row (at most BOARD_WIDTH of them).
RECURSIVE ValueSum(_, _)
ValueSum(b, S) ==
    IF S = {}
    THEN 0
    ELSE LET position == CHOOSE q \in S : TRUE
         IN  b[position[1]][position[2]] + ValueSum(b, S \ {position})

\* The sum of the values of board data b at the positions of S in the rows
\* below `rows`.
RECURSIVE BoardValueSum(_, _, _)
BoardValueSum(b, S, rows) ==
    IF rows = 0
    THEN 0
    ELSE BoardValueSum(b, S, rows - 1)
         + ValueSum(b, {q \in S : q[1] = rows - 1})

\* The positions of the board.
Positions == (0..(BOARD_WIDTH - 1)) \X (0..(BOARD_WIDTH - 1))

\* The sum of the values of the cells of b whose position is in S.
SumAt(b, S) == BoardValueSum(b, S \cap Positions, BOARD_WIDTH)

(* C1: on the fixed board the solver returns Found, never NotFound, and the
   sum carried by Found is 1935; it does not abort either. *)
C1_FoundWith1935 ==
    /\ pc # "panic"
    /\ pc \in {"solve", "explain_backwards", "explain_forwards", "done"}
           => IsSome(found)
    /\ pc = "done" => IsSome(solution)
    /\ IsSome(solution) =>
           /\ Unwrap(solution).tag = "Found"
           /\ Unwrap(solution).sum = 1935

C1_Witness ==
    /\ pc = "done"
    /\ board = BoardNew
    /\ IsSome(solution)
    /\ Unwrap(solution).tag = "Found"
    /\ Unwrap(solution).sum = 1935

(* C2: with the top face of the rolled dice known (t), try_dice_movement
   accepts the move onto a cell of value v from score s at turn n if and only
   if s + n * t = v, and the journey of an accepted move carries the rolled
   dice unchanged, turn = n and the visited cells extended by the cell. *)
C2_KnownTopRule ==
    (IsSome(outcome) /\ IsSome(Unwrap(args).dice.top)) =>
        LET a == Unwrap(args)
            t == Unwrap(a.dice.top)
            o == Unwrap(outcome)
        IN  /\ (o.tag # "Invalid") <=> (a.score + a.new_turn * t = a.cell.value)
            /\ o.tag # "Invalid" =>
                   /\ o.journey.dice = a.dice
                   /\ o.journey.turn = a.new_turn
                   /\ o.journey.visited_cells = a.visited_cells \o <<a.cell>>

C2_Witness ==
    /\ IsSome(outcome)
    /\ IsSome(Unwrap(args).dice.top)
    /\ Unwrap(args).new_turn > 1
    /\ Unwrap(args).dice.top # Some(0)
    /\ Unwrap(outcome).tag = "ValidJourney"

(* C3: with the top face of the rolled dice unknown, try_dice_movement accepts
   the move onto a cell of value v from score s at turn n >= 1 if and only if
   v - s is an integer multiple of n, whatever its sign; the dice of an
   accepted move has its top pinned to the q with s + n * q = v and its five
   other faces as in the rolled dice. *)
C3_UnknownTopRule ==
    (IsSome(outcome) /\ ~IsSome(Unwrap(args).dice.top)) =>
        LET a == Unwrap(args)
            diff == a.cell.value - a.score
            o == Unwrap(outcome)
            Multiple == \E q \in (-Abs(diff))..Abs(diff) : q * a.new_turn = diff
        IN  /\ (o.tag # "Invalid") <=> Multiple
            /\ o.tag # "Invalid" =>
                   /\ IsSome(o.journey.dice.top)
                   /\ a.score + a.new_turn * Unwrap(o.journey.dice.top) = a.cell.value
                   /\ \A face \in {"bottom", "left", "right", "front", "back"} :
                          o.journey.dice[face] = a.dice[face]

C3_Witness ==
    /\ IsSome(outcome)
    /\ ~IsSome(Unwrap(args).dice.top)
    /\ Unwrap(args).cell.value - Unwrap(args).score < 0
    /\ Unwrap(args).new_turn > 1
    /\ IsSome(Unwrap(args).dice.bottom)
    /\ Unwrap(outcome).tag = "ValidJourney"
    /\ Unwrap(outcome).journey.dice.top = Some(-1)

\* C4: the journey find_solution_journey returns has the fewest moves of the
\* valid journeys that end on the end cell: no valid journey on the end cell
\* has a turn below the turn of the journey returned.
C4_FewestMoves ==
    (pc = "done" /\ IsSome(found)
     /\ is_end_cell(get_last_visited_cell(route)))
        => /\ is_end_cell(get_last_visited_cell(Unwrap(found)))
           /\ Unwrap(found).turn = Len(Unwrap(found).visited_cells) - 1
           /\ route.turn = Len(route.visited_cells) - 1
           /\ route.turn >= Unwrap(found).turn

\* The run on the board of two routes is over, the journey of ten moves was
\* returned, and the valid journey of twelve moves stands on the end cell.
C4_Witness ==
    /\ pc = "done"
    /\ board = BoardTwoRoutes
    /\ IsSome(found)
    /\ is_end_cell(get_last_visited_cell(route))
    /\ route.turn > Unwrap(found).turn
    /\ route.visited_cells # Unwrap(found).visited_cells

\* The dice d after the rolls of a sequence of directions, in order.
RECURSIVE RollAll(_, _)
RollAll(d, dirs) ==
    IF dirs = <<>>
    THEN d
    ELSE roll_in(RollAll(d, SubSeq(dirs, 1, Len(dirs) - 1)), dirs[Len(dirs)])

Opposite(dir) ==
    CASE dir = "UP" -> "DOWN"
      [] dir = "DOWN" -> "UP"
      [] dir = "LEFT" -> "RIGHT"
      [] dir = "RIGHT" -> "LEFT"

(* C5: rolling a dice (any mix of known and unknown faces) in a direction and
   then in the opposite direction gives back the dice as it was before the two
   rolls, in all six faces. *)
C5_RollThenOpposite ==
    (Len(rolls) >= 2 /\ rolls[Len(rolls)] = Opposite(rolls[Len(rolls) - 1])) =>
        dice = RollAll(dice0, SubSeq(rolls, 1, Len(rolls) - 2))

C5_Witness ==
    /\ rolls = <<"LEFT", "DOWN", "UP">>
    /\ IsSome(dice0.top) /\ ~IsSome(dice0.front) /\ IsSome(dice0.back)
    /\ dice = roll_left(dice0)
    /\ dice # dice0

(* C6: rolling a dice four times in a row in one direction gives back the dice
   as it was before the four rolls, in all six faces. *)
C6_FourRolls ==
    (/\ Len(rolls) >= 4
     /\ \A i \in (Len(rolls) - 3)..Len(rolls) : rolls[i] = rolls[Len(rolls)]) =>
        dice = RollAll(dice0, SubSeq(rolls, 1, Len(rolls) - 4))

C6_Witness ==
    /\ rolls = <<"RIGHT", "RIGHT", "RIGHT", "RIGHT">>
    /\ \A face \in DOMAIN dice0 : IsSome(dice0[face])
    /\ dice = dice0

\* The rotation table: the faces of the dice after a roll, from the faces of
\* the dice `old` before it.
RotationTable(old, dir) ==
    CASE dir = "UP" ->
            [top |-> old.back, bottom |-> old.front, left |-> old.left,
             right |-> old.right, front |-> old.top, back |-> old.bottom]
      [] dir = "DOWN" ->
            [top |-> old.front, bottom |-> old.back, left |-> old.left,
             right |-> old.right, front |-> old.bottom, back |-> old.top]
      [] dir = "LEFT" ->
            [top |-> old.right, bottom |-> old.left, left |-> old.top,
             right |-> old.bottom, front |-> old.front, back |-> old.back]
      [] dir = "RIGHT" ->
            [top |-> old.left, bottom |-> old.right, left |-> old.bottom,
             right |-> old.top, front |-> old.front, back |-> old.back]

(* C7: roll_in gives the face assignment of the rotation table for each of the
   four directions, an unknown face staying unknown in its new slot. *)
C7_RollInTable ==
    Len(rolls) >= 1 =>
        dice = RotationTable(RollAll(dice0, SubSeq(rolls, 1, Len(rolls) - 1)),
                             rolls[Len(rolls)])

C7_Witness ==
    /\ rolls = <<"LEFT">>
    /\ dice0 = Dice(Some(1), None, Some(4), Some(5), Some(0), None)
    /\ dice = Dice(Some(5), Some(4), Some(1), None, Some(0), None)

(* C8: move_in returns None exactly when the neighbour would lie outside the
   board, and otherwise the cell one row up (UP), one row down (DOWN), one
   column left (LEFT) or one column right (RIGHT), with the value the board
   holds there; from the start cell (5,0) LEFT and DOWN give None, UP gives
   (4,0) with value 5 and RIGHT gives (5,1) with value 77. *)
C8_MoveIn ==
    IsSome(direction) =>
        LET dir == Unwrap(direction)
            row == curr_cell.position[1] + (CASE dir = "UP" -> -1
                                              [] dir = "DOWN" -> 1
                                              [] OTHER -> 0)
            col == curr_cell.position[2] + (CASE dir = "LEFT" -> -1
                                              [] dir = "RIGHT" -> 1
                                              [] OTHER -> 0)
        IN  /\ moved = IF <<row, col>> \in Positions
                       THEN Some([value |-> board[row][col], position |-> <<row, col>>])
                       ELSE None
            /\ curr_cell.position = <<5, 0>> =>
                   moved = CASE dir = "UP" -> Some([value |-> 5, position |-> <<4, 0>>])
                             [] dir = "RIGHT" -> Some([value |-> 77, position |-> <<5, 1>>])
                             [] OTHER -> None

C8_Witness ==
    /\ curr_cell.position = <<0, 3>>
    /\ direction = Some("RIGHT")
    /\ moved = Some([value |-> 492, position |-> <<0, 4>>])

(* C9: compute_sum_of_unvisited_cells of a set of positions is the sum of the
   values of the 36 cells whose position is not in the set: of all 36 for the
   empty set, and lower by the value of the cell when a position of the board
   is added to the set. *)
C9_SumOfUnvisited ==
    /\ sum = SumAt(board, Positions \ unique_visited_positions)
    /\ unique_visited_positions = {} => sum = SumAt(board, Positions)
    /\ IsSome(inserted) =>
           sum = IF Unwrap(inserted) \in Positions
                 THEN prev_sum - board[Unwrap(inserted)[1]][Unwrap(inserted)[2]]
                 ELSE prev_sum

C9_Witness ==
    /\ unique_visited_positions = {<<3, 0>>, <<0, 5>>}
    /\ inserted = Some(<<3, 0>>)
    /\ sum = prev_sum + 7

(* C10: the sum in Found is the board's sum over the cells whose position is
   not among the positions of the cells the winning journey visited: a
   position visited several times is taken off the total once, and the
   positions of the start cell and of the end cell are taken off too. *)
C10_SumOfWinningJourney ==
    IsSome(sum_unvisited) =>
        LET visited_cells == Unwrap(found).visited_cells
            visited == {visited_cells[i].position : i \in 1..Len(visited_cells)}
        IN  /\ Unwrap(sum_unvisited) = SumAt(board, Positions \ visited)
            /\ Unwrap(sum_unvisited) = SumAt(board, Positions) - SumAt(board, visited)
            /\ start_cell(board).position \in visited
            /\ END_CELL_POSITION \in visited
            /\ IsSome(solution) => Unwrap(solution).sum = Unwrap(sum_unvisited)

C10_Witness ==
    /\ pc = "done"
    /\ IsSome(solution)
    /\ Unwrap(solution).tag = "Found"
    /\ LET visited_cells == Unwrap(found).visited_cells
       IN  /\ \E i, k \in 1..Len(visited_cells) :
                  i < k /\ visited_cells[i].position = visited_cells[k].position
           /\ Unwrap(solution).sum =
                  SumAt(board, Positions)
                  - SumAt(board, {visited_cells[i].position : i \in 1..Len(visited_cells)})

----------------------------------------------------------------------------
(* The journeys of a run *)

\* The journeys the run holds: the list of candidates, the journey popped and
\* the journey returned.
HeldJourneys ==
    {journeys[i] : i \in 1..Len(journeys)}
        \cup (IF IsSome(journey) THEN {Unwrap(journey)} ELSE {})
        \cup (IF IsSome(found) THEN {Unwrap(found)} ELSE {})

\* C11: every journey in the list of candidates, popped from it or returned
\* as the solution has a visited-cell sequence that is not empty and begins
\* with the start cell at (5,0), and a turn equal to the length of the
\* sequence minus one.
C11_JourneyShape ==
    \A j \in HeldJourneys :
        /\ Len(j.visited_cells) >= 1
        /\ j.visited_cells[1] = start_cell(board)
        /\ get_position(j.visited_cells[1]) = <<5, 0>>
        /\ j.turn = Len(j.visited_cells) - 1

\* A journey was returned while candidates of several moves wait in the list.
C11_Witness ==
    /\ IsSome(found)
    /\ Unwrap(found).turn > 1
    /\ Len(journeys) >= 2
    /\ \A i \in 1..Len(journeys) : journeys[i].turn > 1

\* The valid journey followed is a beginning of the journey returned.
RouteOnWinningPath ==
    /\ IsSome(found)
    /\ Len(route.visited_cells) <= Len(Unwrap(found).visited_cells)
    /\ route.visited_cells =
           SubSeq(Unwrap(found).visited_cells, 1, Len(route.visited_cells))

\* C12: for the journey returned, the replay of the recovered movements from
\* the recovered starting dice, from score 0, shows at every turn k the top
\* face the search validated or inferred at that turn (the top of the dice of
\* the journey's beginning of k moves), and a score, the previous one plus k
\* times the top, equal to the value of the k-th cell visited.
C12_ReplayMatchesSearch ==
    (pc = "done" /\ RouteOnWinningPath /\ route.turn >= 1)
        => LET k == route.turn
               visited_cells == Unwrap(found).visited_cells
               line == Unwrap(solution).explanation[k + 1]
           IN  /\ Len(Unwrap(solution).explanation) = Len(visited_cells)
               /\ line.turn = k
               /\ get_top(route.dice) = Some(line.dice_top)
               /\ line.score = (IF k = 1 THEN 0 ELSE get_value(visited_cells[k]))
               /\ line.new_score = line.score + k * line.dice_top
               /\ line.new_score = get_value(visited_cells[k + 1])
               /\ line.cell_value = get_value(visited_cells[k + 1])

\* The replay of the puzzle's solution is compared at a turn where the dice
\* has rolled back onto a cell visited before.
C12_Witness ==
    /\ pc = "done"
    /\ board = BoardNew
    /\ RouteOnWinningPath
    /\ route.turn = 6
    /\ get_position(get_last_visited_cell(route)) = <<4, 1>>
    /\ Unwrap(solution).explanation[7].dice_top = Unwrap(get_top(route.dice))

Faces == {"top", "bottom", "left", "right", "front", "back"}

\* child is parent extended by one move, and each face known on parent's dice
\* once rolled keeps its value on child's dice: only a top that was unknown
\* may differ.
LineageStep(parent, child) ==
    \E dir \in Direction :
        /\ move_in(board, get_last_visited_cell(parent), dir)
               = Some(get_last_visited_cell(child))
        /\ child.visited_cells
               = Append(parent.visited_cells, get_last_visited_cell(child))
        /\ LET rolled == roll_in(parent.dice, dir)
           IN  /\ \A f \in Faces \ {"top"} : child.dice[f] = rolled[f]
               /\ IsSome(rolled.top) => child.dice.top = rolled.top

\* C13: along a lineage of journeys a face of the dice that is known never
\* changes: each journey pushed, returned or reached by one more valid move
\* carries its parent's dice rolled, with the top set only where it was
\* unknown.
C13_KnownFacesKept ==
    [][/\ (pc = "for" /\ Len(journeys') = Len(journeys) + 1)
            => LineageStep(Unwrap(journey), journeys'[Len(journeys')])
       /\ (pc = "for" /\ IsSome(found'))
            => LineageStep(Unwrap(journey), Unwrap(found'))
       /\ (route' # route) => LineageStep(route, route')]_vars

\* A journey of the puzzle board has gone eight moves or more and knows its
\* six faces: each of its next moves is checked against a known top.
C13_Witness ==
    /\ board = BoardNew
    /\ route.turn >= 8
    /\ \A f \in Faces : IsSome(route.dice[f])
    /\ ~is_end_cell(get_last_visited_cell(route))

\* C14: on the puzzle board one valid journey from the start cell, and no
\* other, comes onto the end cell: every valid journey with the end cell
\* among its cells is the journey returned.  No valid journey of the board
\* is longer than the journey returned, so none is left unfollowed.
C14_UniqueWinningPath ==
    (board = BoardNew /\ pc = "done")
        => /\ IsSome(found)
           /\ route.turn <= Unwrap(found).turn
           /\ (\E i \in 1..Len(route.visited_cells) :
                    is_end_cell(route.visited_cells[i]))
                => route = Unwrap(found)

\* The valid journey followed on the puzzle board has come onto the end cell.
C14_Witness ==
    /\ board = BoardNew
    /\ pc = "done"
    /\ route = Unwrap(found)
    /\ is_end_cell(get_last_visited_cell(route))

\* C15: on the puzzle board the loop of find_solution_journey stops, with a
\* journey returned or the list emptied, after finitely many dequeues: fewer
\* than the cap on the counter, which therefore never holds the run back.
C15_SearchTerminates ==
    /\ <>(pc \notin {"while", "for"})
    /\ [](dequeues < MaxDequeues)

\* find_solution_journey has returned the journey found on the fiftieth
\* journey popped.
C15_Witness ==
    /\ pc = "solve"
    /\ IsSome(found)
    /\ dequeues = 50
    /\ dequeues < MaxDequeues

\* C16: on board data where the list of candidates empties with no journey
\* generated onto the end cell, solve returns NotFound, a value and no abort;
\* and it returns NotFound in that case only: the list is empty, no journey
\* was found, and the board is the one no journey can finish on.
C16_NotFoundWhenExhausted ==
    /\ (pc = "done" /\ ~IsSome(found)) => solution = Some(NotFound)
    /\ (pc \in {"solve", "done"} /\ ~IsSome(found))
            => journeys = <<>> /\ ~IsSome(journey)
    /\ solution = Some(NotFound)
            => /\ pc = "done"
               /\ ~IsSome(found)
               /\ journeys = <<>>
               /\ board = BoardNoRoute
    /\ board = BoardNoRoute => pc # "panic" /\ ~IsSome(found)

\* The run on the board with the unreachable end cell has popped every
\* journey and returned NotFound.
C16_Witness ==
    /\ board = BoardNoRoute
    /\ pc = "done"
    /\ dequeues > 1
    /\ journeys = <<>>
    /\ solution = Some(NotFound)

\* The end cell is among the cells of journey j.
VisitsEndCell(j) ==
    \E i \in 1..Len(j.visited_cells) : is_end_cell(j.visited_cells[i])

\* C17: the search stops at the first move generated onto the end cell (0,5).
\* No journey in the list, and no journey popped from it, has the end cell
\* among its cells; the journey returned has it as its last cell only; and
\* once a journey is returned no direction is tried and no journey popped or
\* pushed any more.
C17_StopsAtFirstGoal ==
    /\ [](\A i \in 1..Len(journeys) : ~VisitsEndCell(journeys[i]))
    /\ [](IsSome(journey) => ~VisitsEndCell(Unwrap(journey)))
    /\ [](IsSome(found)
            => /\ pc \notin {"while", "for"}
               /\ get_position(get_last_visited_cell(Unwrap(found))) = <<0, 5>>
               /\ \A i \in 1..(Len(Unwrap(found).visited_cells) - 1) :
                      ~is_end_cell(Unwrap(found).visited_cells[i]))
    /\ [][IsSome(found)
            => UNCHANGED <<found, journeys, journey, dirIdx, dequeues>>]_vars

\* A journey was returned from the first direction tried, with the other
\* directions untried and journeys left in the list.
C17_Witness ==
    /\ IsSome(found)
    /\ pc = "done"
    /\ dirIdx < Len(DirectionIter)
    /\ journeys # <<>>

\* Cells a and b are one row apart in the same column, or one column apart
\* in the same row.
UnitStep(a, b) ==
    LET rows == Abs(get_position(a)[1] - get_position(b)[1])
        cols == Abs(get_position(a)[2] - get_position(b)[2])
    IN  (rows = 1 /\ cols = 0) \/ (rows = 0 /\ cols = 1)

Orthogonal(j) ==
    \A i \in 1..(Len(j.visited_cells) - 1) :
        UnitStep(j.visited_cells[i], j.visited_cells[i + 1])

\* C18: in every journey the search produces, two consecutive cells are one
\* row apart in the same column or one column apart in the same row; so the
\* first loop of explain finds a direction for every step of the journey
\* returned and never reaches its panic.
C18_OrthogonalSteps ==
    /\ \A j \in HeldJourneys \cup {route} : Orthogonal(j)
    /\ (pc = "explain_backwards" /\ last_idx > 1)
            => IsSome(ExplainMovement(Unwrap(found).visited_cells[last_idx - 1],
                                      Unwrap(found).visited_cells[last_idx]))
    /\ pc # "panic"

\* The first loop of explain has gone through the 32 steps of the puzzle's
\* solution back to the start cell.
C18_Witness ==
    /\ board = BoardNew
    /\ pc = "explain_backwards"
    /\ last_idx = 1
    /\ Len(dice_movements) = 32

\* C19: explain, on a journey where two consecutive cells are not one row or
\* one column apart (a diagonal step, a cell repeated, two cells of a row or
\* column more than one apart), panics in its first loop and produces no
\* explanation.
C19_AbortsOnNonUnitStep ==
    (IsSome(found) /\ ~Orthogonal(Unwrap(found)))
        => /\ pc \notin {"explain_forwards", "done"}
           /\ solution = None

\* C20: explain walks the cells of the journey returned backwards, undoing
\* each move by the inverse roll, then rolls the dice recovered forwards
\* through the movements recovered: it ends on the dice of the journey, and
\* the movements are, in order, the directions the search moved in from each
\* cell to the next.
C20_ExplainRoundTrip ==
    (pc = "done" /\ IsSome(found))
        => LET visited_cells == Unwrap(found).visited_cells
           IN  /\ explain_dice = Unwrap(found).dice
               /\ Len(dice_movements) = Unwrap(found).turn
               /\ \A k \in 1..Len(dice_movements) :
                      move_in(board, visited_cells[k], dice_movements[k])
                          = Some(visited_cells[k + 1])

\* explain has rolled the dice of the puzzle's solution back through its 32
\* moves and forward again.
C20_Witness ==
    /\ board = BoardNew
    /\ pc = "done"
    /\ Len(dice_movements) = 32
    /\ explain_lines[1].dice # Unwrap(found).dice
    /\ explain_dice = Unwrap(found).dice

----------------------------------------------------------------------------
(* The faces of a dice under rolls *)

\* How many faces of dice d hold the optional value v (None, or Some(x)).
FaceCount(d, v) == Cardinality({f \in Faces : d[f] = v})

\* How many faces of dice d are known.
KnownFaces(d) == Cardinality({f \in Faces : IsSome(d[f])})

\* C21: a roll permutes the six faces: after any rolls each optional value,
\* None included, is on as many faces of the dice as before, so the number
\* of known faces is the same; set_top on a dice whose top is unknown raises
\* that number by exactly one and leaves the five other faces alone.
C21_RollPermutesFaces ==
    /\ \A v \in {dice0[f] : f \in Faces} \cup {dice[f] : f \in Faces} :
           FaceCount(dice, v) = FaceCount(dice0, v)
    /\ KnownFaces(dice) = KnownFaces(dice0)
    /\ ~IsSome(get_top(dice))
           => \A top \in Values :
                  /\ KnownFaces(set_top(dice, top)) = KnownFaces(dice) + 1
                  /\ \A f \in Faces \ {"top"} : set_top(dice, top)[f] = dice[f]

\* A dice of three known faces has rolled, about two axes, to where its top
\* is unknown.
C21_Witness ==
    /\ KnownFaces(dice0) = 3
    /\ IsSome(get_top(dice0))
    /\ ~IsSome(get_top(dice))
    /\ Len(rolls) >= 2
    /\ \E i, k \in 1..Len(rolls) : rolls[i] = "UP" /\ rolls[k] = "LEFT"

\* The values of the three pairs of opposite faces of dice d.
OppositePairs(d) ==
    {{d.top, d.bottom}, {d.left, d.right}, {d.front, d.back}}

\* C22: a roll keeps opposite faces opposite: after any rolls the faces in
\* the slots top and bottom, left and right, front and back are faces that
\* were opposite each other before, whatever the dice and the directions.
C22_OppositePairsKept ==
    /\ {dice.top, dice.bottom} \in OppositePairs(dice0)
    /\ {dice.left, dice.right} \in OppositePairs(dice0)
    /\ {dice.front, dice.back} \in OppositePairs(dice0)
    /\ OppositePairs(dice) = OppositePairs(dice0)

\* The dice of six known faces has rolled about two axes: the faces that
\* were left and right are now top and bottom.
C22_Witness ==
    /\ KnownFaces(dice0) = 6
    /\ Len(rolls) >= 3
    /\ \E i, k \in 1..Len(rolls) : rolls[i] = "DOWN" /\ rolls[k] = "RIGHT"
    /\ {dice.top, dice.bottom} = {dice0.left, dice0.right}

----------------------------------------------------------------------------
(* The expansion of a journey *)

\* The score rule allows the move of journey parent in direction dir: the
\* board has a cell there and, n being the turn of the move, s the value of
\* the cell moved from and v the value of that cell, s + n * top = v for the
\* known top of the rolled dice, or n divides v - s where the top is unknown.
MoveAllowed(parent, dir) ==
    LET last_visited_cell == get_last_visited_cell(parent)
        cell == move_in(board, last_visited_cell, dir)
        rolled == roll_in(parent.dice, dir)
        n == parent.turn + 1
        s == get_value(last_visited_cell)
    IN  /\ IsSome(cell)
        /\ IF IsSome(rolled.top)
           THEN s + n * Unwrap(rolled.top) = get_value(Unwrap(cell))
           ELSE TruncRem(get_value(Unwrap(cell)) - s, n) = 0

\* C23: trying a direction of a journey changes neither that journey nor the
\* journeys of the list: an allowed move adds one child at the back, or is
\* returned as the solution, the child being the parent's cells with one
\* cell appended and the parent's dice rolled, its top at most set where it
\* was unknown; a move that is not allowed adds nothing.  The parent keeps
\* its dice between directions, so what one child inferred is not in the
\* dice the next child starts from.
C23_ExpansionFrame ==
    [][pc = "for"
        => LET parent == Unwrap(journey)
               dir == DirectionIter[dirIdx]
           IN  /\ pc' = "for" => journey' = journey
               /\ ~MoveAllowed(parent, dir)
                    => journeys' = journeys /\ found' = found
               /\ MoveAllowed(parent, dir)
                    => \/ /\ Len(journeys') = Len(journeys) + 1
                          /\ SubSeq(journeys', 1, Len(journeys)) = journeys
                          /\ LineageStep(parent, journeys'[Len(journeys')])
                          /\ found' = found
                       \/ /\ journeys' = journeys
                          /\ IsSome(found')
                          /\ LineageStep(parent, Unwrap(found'))]_vars

\* The second direction of a journey is about to be tried: the child of the
\* first waits behind another journey of the list, with a top inferred that
\* the parent's dice does not hold.
C23_Witness ==
    /\ pc = "for"
    /\ dirIdx >= 2
    /\ Len(journeys) >= 2
    /\ LineageStep(Unwrap(journey), journeys[Len(journeys)])
    /\ KnownFaces(journeys[Len(journeys)].dice)
           = KnownFaces(Unwrap(journey).dice) + 1

\* The rolls so far are all in one direction.
OneDirection == \A i \in 1..Len(rolls) : rolls[i] = rolls[1]

\* C24: a dice of six distinct known faces rolled once, twice or three times
\* in one direction differs from the dice it was (and so does any number of
\* such rolls that is not a multiple of four); the dice of six unknown faces
\* is equal to itself after any rolls.
C24_RotationOrderFour ==
    /\ (KnownFaces(dice0) = 6 /\ OneDirection /\ Len(rolls) % 4 # 0)
            => dice # dice0
    /\ dice0 = DiceDefault => dice = dice0

\* The dice of six known faces has rolled three times to the left.
C24_Witness ==
    /\ KnownFaces(dice0) = 6
    /\ Cardinality({dice0[f] : f \in Faces}) = 6
    /\ rolls = <<"LEFT", "LEFT", "LEFT">>
    /\ dice # dice0

\* C25: the turns of the journeys of the list never decrease from front to
\* back, and the last is at most one above the first; the journey whose
\* directions are tried has a turn no higher than any of the list and at most
\* one below; so the journeys are popped by turns that never decrease.
C25_FrontierLevels ==
    /\ [](\A i, k \in 1..Len(journeys) :
              i <= k => /\ journeys[i].turn <= journeys[k].turn
                        /\ journeys[k].turn <= journeys[i].turn + 1)
    /\ [](IsSome(journey)
            => \A i \in 1..Len(journeys) :
                   /\ Unwrap(journey).turn <= journeys[i].turn
                   /\ journeys[i].turn <= Unwrap(journey).turn + 1)
    /\ [][(pc = "for" /\ pc' = "while")
            => \A i \in 1..Len(journeys') :
                   Unwrap(journey).turn <= journeys'[i].turn]_vars
    /\ [][(pc = "while" /\ IsSome(journey'))
            => /\ journey' = Some(Head(journeys))
               /\ \A i \in 1..Len(journeys') :
                      Unwrap(journey').turn <= journeys'[i].turn]_vars

\* The list holds journeys of two turns, the earlier in front, while the
\* directions of a journey of the earlier turn are tried.
C25_Witness ==
    /\ pc = "for"
    /\ Len(journeys) >= 3
    /\ journeys[1].turn = Unwrap(journey).turn
    /\ journeys[Len(journeys)].turn = Unwrap(journey).turn + 1

----------------------------------------------------------------------------
(* The arithmetic of a run, without the wrap of i16 *)

\* The values of i16.
InI16(x) == x \in -32768..32767

\* The first n positions of the board in the order of the loops of
\* compute_sum_of_unvisited_cells (row by row, column by column).
LoopPrefix(n) == {q \in Positions : q[1] * BOARD_WIDTH + q[2] < n}

\* What the iteration of the loop of find_solution_journey about to run
\* computes is in i16: the new turn and, the move staying on the board, the
\* product and the sum of the known top or the difference of the unknown top.
SearchArithmeticInI16 ==
    LET j == Unwrap(journey)
        last_visited_cell == get_last_visited_cell(j)
        score == get_value(last_visited_cell)
        dir == DirectionIter[dirIdx]
        cell == move_in(board, last_visited_cell, dir)
        rolled == roll_in(j.dice, dir)
    IN  /\ InI16(j.turn + 1)
        /\ IsSome(cell) =>
               IF IsSome(get_top(rolled))
               THEN /\ InI16((j.turn + 1) * Unwrap(get_top(rolled)))
                    /\ InI16(score + (j.turn + 1) * Unwrap(get_top(rolled)))
               ELSE InI16(get_value(Unwrap(cell)) - score)

\* What the iteration of the second loop of explain about to run computes is
\* in i16: the turn, the product and the new score.
ReplayArithmeticInI16 ==
    LET turn == Len(explain_lines) - 1
    IN  turn < Len(dice_movements) =>
            LET rolled == roll_in(explain_dice, dice_movements[turn + 1])
            IN  /\ InI16(turn + 1)
                /\ IsSome(get_top(rolled)) =>
                       /\ InI16((turn + 1) * Unwrap(get_top(rolled)))
                       /\ InI16(explain_score
                                + (turn + 1) * Unwrap(get_top(rolled)))

\* Every value that `sum` takes in the loops of compute_sum_of_unvisited_cells
\* for the journey found is in i16.
SumArithmeticInI16 ==
    \A n \in 0..(BOARD_WIDTH * BOARD_WIDTH) :
        InI16(SumAt(board, LoopPrefix(n) \ UniqueVisitedPositions(Unwrap(found))))

\* C26: in a run on the puzzle board no computation leaves i16: the turn + 1,
\* the score + new_turn * top and the cell value - score of the search, the
\* products and scores of the replay of explain, and every partial sum of
\* compute_sum_of_unvisited_cells.
C26_NoOverflow ==
    /\ pc = "for" => SearchArithmeticInI16
    /\ pc = "explain_forwards" => ReplayArithmeticInI16
    /\ (pc = "solve" /\ IsSome(found)) => SumArithmeticInI16
    /\ \A i \in 2..Len(explain_lines) :
           explain_lines[i].new_score
               = explain_lines[i].score
                 + explain_lines[i].turn * explain_lines[i].dice_top

\* The last move of the replay is made: the score is the value of the end
\* cell, the largest of the board, and the sum of the unvisited cells is
\* computed.
C26_Witness ==
    /\ pc = "explain_forwards"
    /\ Len(explain_lines) - 1 = Len(dice_movements)
    /\ Len(dice_movements) > 0
    /\ explain_score = board[END_CELL_POSITION[1]][END_CELL_POSITION[2]]
    /\ IsSome(sum_unvisited)

----------------------------------------------------------------------------
(* The top face of the journeys *)

\* C27: every journey past its first cell that the run holds (in the list,
\* popped from it, returned, or built by a further valid move) has a known
\* top face; and at each iteration of the second loop of explain the dice
\* rolled has a known top face, so that `dice.get_top().unwrap()` never
\* panics.
C27_TopKnown ==
    /\ \A j \in HeldJourneys \cup {route} :
           j.turn >= 1 => IsSome(get_top(j.dice))
    /\ pc = "explain_forwards" =>
           LET turn == Len(explain_lines) - 1
           IN  turn < Len(dice_movements) =>
                   IsSome(get_top(roll_in(explain_dice, dice_movements[turn + 1])))
    /\ pc # "panic"

\* The replay of a journey of several moves is under way, its dice about to
\* be rolled onto a known face, while the list still holds candidates past
\* their first cell.
C27_Witness ==
    /\ pc = "explain_forwards"
    /\ Len(explain_lines) >= 2
    /\ Len(explain_lines) - 1 < Len(dice_movements)
    /\ IsSome(get_top(roll_in(explain_dice, dice_movements[Len(explain_lines)])))
    /\ Unwrap(found).turn >= 2
    /\ \E i \in 1..Len(journeys) : journeys[i].turn >= 1

----------------------------------------------------------------------------
(* The expansion of the first journey *)

\* The journey of one move from the start cell of the puzzle onto the cell of
\* the given value and position: the top is the value, the other faces are
\* unknown.
FirstMove(value, position) ==
    Journey([DiceDefault EXCEPT !.top = Some(value)], 1,
            <<start_cell(BoardNew), Cell(value, position)>>)

\* The two first moves of the puzzle: UP, then RIGHT.
FirstMoves ==
    <<FirstMove(5, <<BOARD_WIDTH - 2, 0>>), FirstMove(77, <<BOARD_WIDTH - 1, 1>>)>>

\* C28: the directions of the first journey (unknown dice, start cell, turn
\* 0) are tried in the order UP, RIGHT, DOWN, LEFT: on the puzzle board UP
\* adds the journey to (4,0) with top 5, RIGHT adds behind it the journey to
\* (5,1) with top 77, DOWN and LEFT leave the board, and the list is left
\* with these two journeys of turn 1 whose five other faces are unknown; on
\* any board a first move that stays on the board is never Invalid.
C28_FirstExpansion ==
    /\ (dequeues = 1 /\ pc = "for" /\ board = BoardNew) =>
           /\ Unwrap(journey) = Journey(DiceDefault, 0, <<start_cell(board)>>)
           /\ journeys = SubSeq(FirstMoves, 1,
                                IF dirIdx = 1 THEN 0 ELSE IF dirIdx = 2 THEN 1 ELSE 2)
           /\ IsSome(move_in(board, start_cell(board), DirectionIter[dirIdx]))
                  <=> dirIdx \in {1, 2}
           /\ dirIdx = 1 =>
                  move_in(board, start_cell(board), DirectionIter[dirIdx])
                      = Some(Cell(5, <<BOARD_WIDTH - 2, 0>>))
           /\ dirIdx = 2 =>
                  move_in(board, start_cell(board), DirectionIter[dirIdx])
                      = Some(Cell(77, <<BOARD_WIDTH - 1, 1>>))
    /\ (dequeues = 1 /\ pc = "while" /\ board = BoardNew) => journeys = FirstMoves
    /\ (dequeues = 1 /\ pc = "for") =>
           \A dir \in Direction :
               LET j == Unwrap(journey)
                   cell == move_in(board, get_last_visited_cell(j), dir)
               IN  IsSome(cell) =>
                       try_dice_movement(roll_in(j.dice, dir),
                                         get_value(get_last_visited_cell(j)),
                                         Wrap(j.turn + 1), Unwrap(cell),
                                         j.visited_cells).tag # "Invalid"

\* The four directions of the first journey are tried on the puzzle board:
\* the list holds the two first moves.
C28_Witness ==
    /\ dequeues = 1
    /\ pc = "while"
    /\ board = BoardNew
    /\ Len(journeys) = 2
    /\ journeys[1].turn = 1
    /\ journeys[2].turn = 1

====
